---- MODULE Spec2Model ----
(***************************************************************************)
(* Dog-Breed-Classification: the train / load / test sequence of the two   *)
(* notebooks (CNN from scratch, VGG16 transfer learning).                  *)
(*                                                                         *)
(* Floating point values are modelled exactly: a loss is an integer number *)
(* of loss units, a mean loss is a rational [num, den], np.Inf is the      *)
(* rational 1/0.  Parameter values are integers in units of one learning   *)
(* rate step.  The values the framework computes from the images (the loss *)
(* of a batch, the gradient of a backward pass, the dropout mask) are      *)
(* inputs drawn from small sets.  A run starts in a checkout that holds no *)
(* checkpoint file.                                                        *)
(***************************************************************************)
EXTENDS Integers, Sequences, FiniteSets, TLC

\* ---------------------------------------------------------------- bounds
MaxEpochs == 2
MaxLoss == 1
MaxGrad == 1
MaxClasses == 8
batch_size == 2

\* ------------------------------------------------------------- constants
num_classes == 2
DropoutScale == 2
PrintEvery == 200

Variants == {"scratch", "transfer"}
ParamNames == {"features", "classifier_hidden", "classifier_last"}
FeatureParams == {"features"}
ClassifierParams == {"classifier_hidden", "classifier_last"}

LossVals == 0..MaxLoss
GradVals == 0..MaxGrad

\* data['train'], data['valid'], data['test']: (image, label) samples
TrainData == << [x |-> 1, y |-> 1], [x |-> -1, y |-> 0], [x |-> 1, y |-> 0] >>
ValidData == << [x |-> -1, y |-> 0], [x |-> 1, y |-> 1], [x |-> -1, y |-> 1] >>
TestData == << [x |-> 1, y |-> 1], [x |-> -1, y |-> 0], [x |-> 3, y |-> 0] >>

Dataset(name) ==
  CASE name = "train" -> TrainData
    [] name = "valid" -> ValidData
    [] name = "test" -> TestData

\* ----------------------------------------------------------- rationals
Inf == [num |-> 1, den |-> 0]
Zero == [num |-> 0, den |-> 1]
AddR(a, k) == [num |-> a.num + k * a.den, den |-> a.den]
DivR(a, n) == [num |-> a.num, den |-> a.den * n]
LeqR(a, b) == a.num * b.den <= b.num * a.den
LtR(a, b) == a.num * b.den < b.num * a.den
EqR(a, b) == a.num * b.den = b.num * a.den

\* ------------------------------------------------------------ DataLoader
\* DataLoader(..., shuffle=True): a pass draws a fresh permutation
\* variant of Perms: sampling with replacement
Perms_WithReplacement(n) == [1..n -> 1..n]

Perms(n) == {p \in [1..n -> 1..n] : \A i, j \in 1..n : i # j => p[i] # p[j]}

\* len(loader): drop_last is False, so the last batch may be smaller
NumBatches(n) == (n + batch_size - 1) \div batch_size

BatchSize(n, b) ==
  IF (b + 1) * batch_size <= n THEN batch_size ELSE n - b * batch_size

\* the batch with zero-based index b of a pass in order ord
Batch(data, ord, b) ==
  [i \in 1..BatchSize(Len(data), b) |-> data[ord[b * batch_size + i]]]

\* ----------------------------------------------------------------- model
InitParams == [p \in ParamNames |-> 1]

\* Net has BatchNorm2d layers in features, vgg16 has none
HasBatchNorm(v) == v = "scratch"

\* variant of OptimizerParams: the optimizer is built over model.parameters()
OptimizerParams_All(v) == ParamNames

\* variant of OptimizerParams: the optimizer is built over classifier[6] only
OptimizerParams_LastOnly(v) ==
  IF v = "scratch" THEN ParamNames ELSE {"classifier_last"}

\* optim.SGD(params=...): the parameters the optimizer holds
OptimizerParams(v) ==
  IF v = "scratch" THEN ParamNames ELSE ClassifierParams

RECURSIVE SumX(_)
SumX(batch) ==
  IF batch = << >> THEN 0
  ELSE batch[Len(batch)].x + SumX(SubSeq(batch, 1, Len(batch) - 1))

\* nn.BatchNorm2d with the module in training mode: a value is centred by
\* the mean over all images of the batch and all positions of an image. An
\* image has two positions, x and a background 0, so the mean of a batch of
\* N images is sum(x) / (2 N); the result is given in units of
\* 1 / (2 N std), a positive factor that does not change the argmax.
BatchNormTrain(batch, i) == 2 * Len(batch) * batch[i].x - SumX(batch)

\* what the classifier sees of sample i of a batch
ModelInput(v, batch, i) ==
  IF HasBatchNorm(v) THEN BatchNormTrain(batch, i) ELSE batch[i].x

\* forward pass of one sample; m is the dropout mask of the classifier
\* (0: dropped, 1: kept and scaled by 1/(1-p))
Forward(p, x, m) ==
  LET h == p["features"] * x
      a == p["classifier_hidden"] * h * m * DropoutScale
      z == p["classifier_last"] * a
  IN  << 0 - z, z >>

\* output.data.max(1, keepdim=True)[1]: index of the first maximal logit
Argmax(logits) ==
  CHOOSE k \in 0..(num_classes - 1) :
    /\ \A j \in 0..(num_classes - 1) : logits[j + 1] <= logits[k + 1]
    /\ \A j \in 0..(k - 1) : logits[j + 1] < logits[k + 1]

\* model.state_dict(): parameters and buffers
StateDict(p, b) == [params |-> p, buffers |-> b]

\* the save_path argument of train(), the path torch.load reads
SavePath(v) == IF v = "scratch" THEN "model_scratch.pt" ELSE "model_transfer.pt"

\* variant of TorchSave: an existing file is kept, the new one gets a new name
TorchSave_KeepOld(fs, path, obj) ==
  LET target == IF path \in DOMAIN fs THEN "model_last.pt" ELSE path
  IN  [f \in DOMAIN fs \cup {target} |-> IF f = target THEN obj ELSE fs[f]]

\* torch.save(obj, path): creates or overwrites the file at path
TorchSave(fs, path, obj) ==
  [f \in DOMAIN fs \cup {path} |-> IF f = path THEN obj ELSE fs[f]]

NoFiles == [f \in {} |-> 0]

\* ---------------------------------------------------------- architecture
Conv2d(i, o) == [type |-> "Conv2d", in |-> i, out |-> o, kernel |-> 3, pad |-> 1]
BatchNorm2d(n) == [type |-> "BatchNorm2d", in |-> n, out |-> n]
ReLU == [type |-> "ReLU"]
MaxPool2d == [type |-> "MaxPool2d", kernel |-> 2, stride |-> 2]
Dropout == [type |-> "Dropout", percent |-> 50]
Linear(i, o) == [type |-> "Linear", in |-> i, out |-> o]

Pool == [pool |-> TRUE, ch |-> 0]
Ch(n) == [pool |-> FALSE, ch |-> n]

\* cfg = [8, 'M', 16, 'M', 32, 'M', 64, 'M', 128, 'M']
cfg == << Ch(8), Pool, Ch(16), Pool, Ch(32), Pool, Ch(64), Pool, Ch(128), Pool >>

\* Net.make_layers, from the entry model_cfg[k] on
RECURSIVE make_layers(_, _, _)
make_layers(model_cfg, k, in_channels) ==
  IF k > Len(model_cfg) THEN << >>
  ELSE LET l == model_cfg[k]
       IN  IF l.pool
             THEN << MaxPool2d >> \o make_layers(model_cfg, k + 1, in_channels)
             ELSE << Conv2d(in_channels, l.ch), BatchNorm2d(l.ch), ReLU >>
                    \o make_layers(model_cfg, k + 1, l.ch)

\* variant of NetClassifier: the hidden width follows the number of classes
NetClassifier_Scaled(nc) ==
  << Linear(128 * 7 * 7, 4096), ReLU, Dropout,
     Linear(4096, 8 * nc), ReLU, Dropout,
     Linear(8 * nc, nc) >>

\* Net.classifier with the global num_classes = nc
NetClassifier(nc) ==
  << Linear(128 * 7 * 7, 4096), ReLU, Dropout,
     Linear(4096, 1024), ReLU, Dropout,
     Linear(1024, nc) >>

\* Net(cfg)
Net(nc) == [features |-> make_layers(cfg, 1, 3), classifier |-> NetClassifier(nc)]

\* torchvision.models.vgg16(pretrained=True), as the notebook prints it
Vgg16Features ==
  << Conv2d(3, 64), ReLU, Conv2d(64, 64), ReLU, MaxPool2d,
     Conv2d(64, 128), ReLU, Conv2d(128, 128), ReLU, MaxPool2d,
     Conv2d(128, 256), ReLU, Conv2d(256, 256), ReLU, Conv2d(256, 256), ReLU,
     MaxPool2d,
     Conv2d(256, 512), ReLU, Conv2d(512, 512), ReLU, Conv2d(512, 512), ReLU,
     MaxPool2d,
     Conv2d(512, 512), ReLU, Conv2d(512, 512), ReLU, Conv2d(512, 512), ReLU,
     MaxPool2d >>

Vgg16Classifier ==
  << Linear(25088, 4096), ReLU, Dropout,
     Linear(4096, 4096), ReLU, Dropout,
     Linear(4096, 1000) >>

\* model_transfer.classifier[6] = nn.Linear(4096, num_classes)
TransferModel(nc) ==
  [features |-> Vgg16Features,
   classifier |-> [Vgg16Classifier EXCEPT ![7] = Linear(4096, nc)]]

\* the model a notebook builds for num_classes = nc
BuildModel(v, nc) == IF v = "scratch" THEN Net(nc) ELSE TransferModel(nc)

Empty == [features |-> << >>, classifier |-> << >>]

NotBuilt(nc1, nc2) ==
  [built |-> FALSE, nc1 |-> nc1, nc2 |-> nc2, m1 |-> Empty, m2 |-> Empty]

VARIABLES
  events,         \* the loop iterations and save decisions of train(), in order
  console,        \* lines printed since the current epoch or test() began
  error,          \* the exception that ended the run, "none" while it runs
  arch,           \* the two models built for two values of num_classes
  variant,        \* which notebook runs
  n_epochs,       \* the n_epochs parameter
  pc,             \* position of the notebook run
  epoch,          \* loop variable of train()
  batch_idx,      \* loop variable of the current loader pass
  order,          \* sample order of the current loader pass
  params,         \* model parameters
  buffers,        \* BatchNorm num_batches_tracked
  grad,           \* .grad of each parameter
  requires_grad,  \* .requires_grad of each parameter
  require_grad,   \* the attribute the freeze loop sets
  train_loss,
  valid_loss,
  valid_loss_min,
  files,          \* checkpoint files on disk: path -> content
  test_loss,
  correct,
  total,
  steps,          \* optimizer.step() calls so far
  batch_log,      \* batches seen in the current epoch / test pass
  epoch_hist      \* per completed epoch: its valid loss and end state

vars == << events, console, error, arch, variant, n_epochs, pc, epoch, batch_idx, order, params, buffers,
           grad, requires_grad, require_grad, train_loss, valid_loss,
           valid_loss_min, files, test_loss, correct, total, steps,
           batch_log, epoch_hist >>

Init ==
  /\ events = << >>
  /\ console = << >>
  /\ error = "none"
  /\ arch = NotBuilt(133, 133)
  /\ variant \in Variants
  /\ n_epochs \in 0..MaxEpochs
  /\ pc = "built"
  /\ epoch = 0
  /\ batch_idx = 0
  /\ order = << >>
  /\ params = InitParams
  /\ buffers = 0
  /\ grad = [p \in ParamNames |-> 0]
  /\ requires_grad = [p \in ParamNames |-> TRUE]
  /\ require_grad = [p \in ParamNames |-> "unset"]
  /\ train_loss = Zero
  /\ valid_loss = Zero
  /\ valid_loss_min = Inf
  /\ files = NoFiles
  /\ test_loss = Zero
  /\ correct = 0
  /\ total = 0
  /\ steps = 0
  /\ batch_log = << >>
  /\ epoch_hist = << >>

\* ------------------------------------------------------- training pieces
\* variant of ZeroGrad: optimizer.zero_grad() is missing
ZeroGrad_Missing(gr, v) == gr

\* optimizer.zero_grad(): clears the gradients of the optimizer's parameters
ZeroGrad(gr, v) ==
  [p \in ParamNames |-> IF p \in OptimizerParams(v) THEN 0 ELSE gr[p]]

\* loss.backward(): adds the batch gradient g to the .grad of every
\* parameter that requires a gradient
Backward(gr, rg, g) ==
  [p \in ParamNames |-> IF rg[p] THEN gr[p] + g ELSE gr[p]]

\* optimizer.step(): SGD over the optimizer's parameters
SgdStep(pr, gr, v) ==
  [p \in ParamNames |-> IF p \in OptimizerParams(v) THEN pr[p] - gr[p]
                                                     ELSE pr[p]]

\* model(data) with the module in training mode (model.eval() is never
\* called): every BatchNorm layer updates its running statistics
ForwardBuffers(b, v) == IF HasBatchNorm(v) THEN b + 1 ELSE b

\* variant of Accumulate: the batch loss is not weighted by the batch size
Accumulate_Unweighted(acc, loss, size) == AddR(acc, loss)

\* train_loss += loss.item() * data.size(0)
Accumulate(acc, loss, size) == AddR(acc, loss * size)

\* train_loss / len(loaders['train'].dataset)
MeanLoss(acc, name) == DivR(acc, Len(Dataset(name)))

\* variant of SaveNeeded: strict comparison
SaveNeeded_Strict(vl, vmin) == LtR(vl, vmin)

\* variant of SaveNeeded: the model is saved after every epoch
SaveNeeded_Always(vl, vmin) == TRUE

\* if valid_loss <= valid_loss_min
SaveNeeded(vl, vmin) == LeqR(vl, vmin)

\* variant of CountCorrect: pred.ne instead of pred.eq
CountCorrect_Ne(pred, batch) ==
  Cardinality({i \in DOMAIN batch : pred[i] # batch[i].y})

\* np.sum(np.squeeze(pred.eq(target.data.view_as(pred))).cpu().numpy())
CountCorrect(pred, batch) ==
  Cardinality({i \in DOMAIN batch : pred[i] = batch[i].y})

\* variant of LastBatch: the loop over a loader stops one batch early
LastBatch_OneEarly(name, b) == b + 2 >= NumBatches(Len(Dataset(name)))

\* the loop over a loader ends after the batch with index len(loader) - 1
LastBatch(name, b) == b + 1 >= NumBatches(Len(Dataset(name)))

\* variant of PrintsProgress: a line for every batch
PrintsProgress_Always(b) == TRUE

\* if batch_idx % 200 == 0
PrintsProgress(b) == b % PrintEvery = 0

\* print(f"Training Batch: {batch_idx}+/{len(loaders['train'])}")
ProgressLine(name, b) ==
  [kind |-> "progress", phase |-> name, batch_idx |-> b,
   of |-> NumBatches(Len(Dataset(name)))]

\* the prints at the end of an epoch: the loss summary, then the save
\* notice with the running minimum as it is before the update
EpochLines(e, tl, vl, vmin) ==
  << [kind |-> "epoch", epoch |-> e, train_loss |-> tl, valid_loss |-> vl] >>
    \o (IF SaveNeeded(vl, vmin)
          THEN << [kind |-> "saving", from |-> vmin, to |-> vl] >>
          ELSE << >>)

\* variant of TestLines: the percentage is rounded to the nearest integer
TestLines_Rounded(tl, c, t) ==
  << [kind |-> "test_loss", test_loss |-> tl],
     [kind |-> "accuracy", percent |-> (200 * c + t) \div (2 * t),
      correct |-> c, total |-> t] >>

\* the two prints of test(); %2d truncates 100. * correct / total
TestLines(tl, c, t) ==
  << [kind |-> "test_loss", test_loss |-> tl],
     [kind |-> "accuracy", percent |-> (100 * c) \div t,
      correct |-> c, total |-> t] >>

\* one entry of the order in which train() runs its loop bodies
Event(kind, e, b) == [kind |-> kind, epoch |-> e, batch_idx |-> b]

\* --------------------------------------------------------------- actions
\* for param in model_transfer.features.parameters(): param.require_grad = False
FreezeFeatures ==
  /\ pc = "built"
  /\ variant = "transfer"
  /\ require_grad' = [p \in ParamNames |->
                        IF p \in FeatureParams THEN "False" ELSE require_grad[p]]
  /\ pc' = "frozen"
  /\ UNCHANGED << events, console, error, arch, variant, n_epochs, epoch, batch_idx, order, params, buffers,
                  grad, requires_grad, train_loss, valid_loss, valid_loss_min,
                  files, test_loss, correct, total, steps, batch_log,
                  epoch_hist >>

\* train(...) is called: valid_loss_min = np.Inf, the epoch loop starts
\* variant of TrainEnter: the running minimum starts at zero
TrainEnter_MinZero ==
  /\ \/ pc = "built" /\ variant = "scratch"
     \/ pc = "frozen"
  /\ valid_loss_min' = Zero
  /\ epoch' = 1
  /\ pc' = "epoch_head"
  /\ UNCHANGED << events, console, error, arch, variant, n_epochs, batch_idx, order, params, buffers, grad,
                  requires_grad, require_grad, train_loss, valid_loss, files,
                  test_loss, correct, total, steps, batch_log, epoch_hist >>

TrainEnter ==
  /\ \/ pc = "built" /\ variant = "scratch"
     \/ pc = "frozen"
  /\ valid_loss_min' = Inf
  /\ epoch' = 1
  /\ pc' = "epoch_head"
  /\ UNCHANGED << events, console, error, arch, variant, n_epochs, batch_idx, order, params, buffers, grad,
                  requires_grad, require_grad, train_loss, valid_loss, files,
                  test_loss, correct, total, steps, batch_log, epoch_hist >>

\* variant of EpochStart: the two accumulators are initialised once, before
\* the loop over the epochs
EpochStart_NoReset ==
  /\ pc = "epoch_head"
  /\ epoch <= n_epochs
  /\ train_loss' = train_loss
  /\ valid_loss' = valid_loss
  /\ batch_idx' = 0
  /\ order' \in Perms(Len(TrainData))
  /\ batch_log' = << >>
  /\ pc' = "train"
  /\ console' = << >>
  /\ UNCHANGED << events, error, arch, variant, n_epochs, epoch, params, buffers, grad,
                  requires_grad, require_grad, valid_loss_min, files,
                  test_loss, correct, total, steps, epoch_hist >>

\* for epoch in range(1, n_epochs+1): train_loss = 0.0; valid_loss = 0.0
EpochStart ==
  /\ pc = "epoch_head"
  /\ epoch <= n_epochs
  /\ train_loss' = Zero
  /\ valid_loss' = Zero
  /\ batch_idx' = 0
  /\ order' \in Perms(Len(TrainData))
  /\ batch_log' = << >>
  /\ pc' = "train"
  /\ console' = << >>
  /\ UNCHANGED << events, error, arch, variant, n_epochs, epoch, params, buffers, grad,
                  requires_grad, require_grad, valid_loss_min, files,
                  test_loss, correct, total, steps, epoch_hist >>

\* one iteration of the loop over loaders['train']
TrainBatch ==
  /\ pc = "train"
  /\ \E loss \in LossVals, g \in GradVals :
       LET size == BatchSize(Len(TrainData), batch_idx)
           gr == Backward(ZeroGrad(grad, variant), requires_grad, g)
       IN  /\ grad' = gr
           /\ params' = SgdStep(params, gr, variant)
           /\ buffers' = ForwardBuffers(buffers, variant)
           /\ train_loss' = Accumulate(train_loss, loss, size)
           /\ batch_log' = Append(batch_log,
                 [phase |-> "train", loss |-> loss, size |-> size])
  /\ steps' = steps + 1
  /\ IF LastBatch("train", batch_idx)
       THEN /\ pc' = "valid"
            /\ batch_idx' = 0
            /\ order' \in Perms(Len(ValidData))
       ELSE /\ pc' = "train"
            /\ batch_idx' = batch_idx + 1
            /\ order' = order
  /\ events' = Append(events, Event("train", epoch, batch_idx))
  /\ console' = IF PrintsProgress(batch_idx)
                  THEN Append(console, ProgressLine("train", batch_idx))
                  ELSE console
  /\ UNCHANGED << error, arch, variant, n_epochs, epoch, requires_grad, require_grad,
                  valid_loss, valid_loss_min, files, test_loss, correct, total,
                  epoch_hist >>

\* variant of ValidBatch: the validation loop also runs backward and step
ValidBatch_WithStep ==
  /\ pc = "valid"
  /\ \E loss \in LossVals, g \in GradVals :
       LET size == BatchSize(Len(ValidData), batch_idx)
           gr == Backward(ZeroGrad(grad, variant), requires_grad, g)
       IN  /\ valid_loss' = Accumulate(valid_loss, loss, size)
           /\ grad' = gr
           /\ params' = SgdStep(params, gr, variant)
           /\ batch_log' = Append(batch_log,
                 [phase |-> "valid", loss |-> loss, size |-> size])
  /\ buffers' = ForwardBuffers(buffers, variant)
  /\ IF LastBatch("valid", batch_idx)
       THEN /\ pc' = "epoch_end"
            /\ batch_idx' = 0
            /\ order' = << >>
       ELSE /\ pc' = "valid"
            /\ batch_idx' = batch_idx + 1
            /\ order' = order
  /\ events' = Append(events, Event("valid", epoch, batch_idx))
  /\ console' = IF PrintsProgress(batch_idx)
                  THEN Append(console, ProgressLine("valid", batch_idx))
                  ELSE console
  /\ UNCHANGED << error, arch, variant, n_epochs, epoch, requires_grad, require_grad,
                  train_loss, valid_loss_min, files, test_loss, correct,
                  total, steps, epoch_hist >>

\* one iteration of the loop over loaders['valid']
ValidBatch ==
  /\ pc = "valid"
  /\ \E loss \in LossVals :
       LET size == BatchSize(Len(ValidData), batch_idx)
       IN  /\ valid_loss' = Accumulate(valid_loss, loss, size)
           /\ batch_log' = Append(batch_log,
                 [phase |-> "valid", loss |-> loss, size |-> size])
  /\ buffers' = ForwardBuffers(buffers, variant)
  /\ IF LastBatch("valid", batch_idx)
       THEN /\ pc' = "epoch_end"
            /\ batch_idx' = 0
            /\ order' = << >>
       ELSE /\ pc' = "valid"
            /\ batch_idx' = batch_idx + 1
            /\ order' = order
  /\ events' = Append(events, Event("valid", epoch, batch_idx))
  /\ console' = IF PrintsProgress(batch_idx)
                  THEN Append(console, ProgressLine("valid", batch_idx))
                  ELSE console
  /\ UNCHANGED << error, arch, variant, n_epochs, epoch, params, grad, requires_grad,
                  require_grad, train_loss, valid_loss_min, files, test_loss,
                  correct, total, steps, epoch_hist >>

\* variant of EpochEnd: the checkpoint is written but valid_loss_min is
\* not updated
EpochEnd_MinNotUpdated ==
  /\ pc = "epoch_end"
  /\ LET tl == MeanLoss(train_loss, "train")
         vl == MeanLoss(valid_loss, "valid")
         save == SaveNeeded(vl, valid_loss_min)
     IN  /\ train_loss' = tl
         /\ valid_loss' = vl
         /\ files' = IF save
               THEN TorchSave(files, SavePath(variant), StateDict(params, buffers))
               ELSE files
         /\ valid_loss_min' = valid_loss_min
         /\ epoch_hist' = Append(epoch_hist,
               [valid_loss |-> vl, state |-> StateDict(params, buffers),
                saved |-> save])
  /\ epoch' = epoch + 1
  /\ pc' = "epoch_head"
  /\ events' = Append(events, Event("decide", epoch, 0))
  /\ console' = console \o EpochLines(epoch, MeanLoss(train_loss, "train"),
                                       MeanLoss(valid_loss, "valid"),
                                       valid_loss_min)
  /\ UNCHANGED << error, arch, variant, n_epochs, batch_idx, order, params, buffers, grad,
                  requires_grad, require_grad, test_loss, correct, total,
                  steps, batch_log >>

\* the end of an epoch: mean losses, the save decision
EpochEnd ==
  /\ pc = "epoch_end"
  /\ LET tl == MeanLoss(train_loss, "train")
         vl == MeanLoss(valid_loss, "valid")
         save == SaveNeeded(vl, valid_loss_min)
     IN  /\ train_loss' = tl
         /\ valid_loss' = vl
         /\ files' = IF save
               THEN TorchSave(files, SavePath(variant), StateDict(params, buffers))
               ELSE files
         /\ valid_loss_min' = IF save THEN vl ELSE valid_loss_min
         /\ epoch_hist' = Append(epoch_hist,
               [valid_loss |-> vl, state |-> StateDict(params, buffers),
                saved |-> save])
  /\ epoch' = epoch + 1
  /\ pc' = "epoch_head"
  /\ events' = Append(events, Event("decide", epoch, 0))
  /\ console' = console \o EpochLines(epoch, MeanLoss(train_loss, "train"),
                                       MeanLoss(valid_loss, "valid"),
                                       valid_loss_min)
  /\ UNCHANGED << error, arch, variant, n_epochs, batch_idx, order, params, buffers, grad,
                  requires_grad, require_grad, test_loss, correct, total,
                  steps, batch_log >>

\* variant of TrainReturn: train() also returns when the last epoch did not
\* improve the validation loss
TrainReturn_EarlyStop ==
  /\ pc = "epoch_head"
  /\ \/ epoch > n_epochs
     \/ epoch_hist # << >> /\ ~epoch_hist[Len(epoch_hist)].saved
  /\ pc' = "returned"
  /\ batch_log' = << >>
  /\ UNCHANGED << events, console, error, arch, variant, n_epochs, epoch,
                  batch_idx, order, params, buffers, grad, requires_grad,
                  require_grad, train_loss, valid_loss, valid_loss_min, files,
                  test_loss, correct, total, steps, epoch_hist >>

\* return model
TrainReturn ==
  /\ pc = "epoch_head"
  /\ epoch > n_epochs
  /\ pc' = "returned"
  /\ batch_log' = << >>
  /\ UNCHANGED << events, console, error, arch, variant, n_epochs, epoch, batch_idx, order, params, buffers,
                  grad, requires_grad, require_grad, train_loss, valid_loss,
                  valid_loss_min, files, test_loss, correct, total, steps,
                  epoch_hist >>

\* variant of LoadStateDict: the load line is commented out
LoadStateDict_Skipped ==
  /\ pc = "returned"
  /\ pc' = "loaded"
  /\ UNCHANGED << events, console, error, arch, variant, n_epochs, epoch, batch_idx, order, params, buffers,
                  grad, requires_grad, require_grad, train_loss, valid_loss,
                  valid_loss_min, files, test_loss, correct, total, steps,
                  batch_log, epoch_hist >>

\* model.load_state_dict(torch.load(save_path))
LoadStateDict ==
  /\ pc = "returned"
  /\ IF SavePath(variant) \notin DOMAIN files
       THEN /\ pc' = "failed"
            /\ error' = "load"
            /\ UNCHANGED << params, buffers >>
       ELSE /\ pc' = "loaded"
            /\ error' = error
            /\ params' = files[SavePath(variant)].params
            /\ buffers' = files[SavePath(variant)].buffers
  /\ UNCHANGED << events, console, arch, variant, n_epochs, epoch, batch_idx, order, grad,
                  requires_grad, require_grad, train_loss, valid_loss,
                  valid_loss_min, files, test_loss, correct, total, steps,
                  batch_log, epoch_hist >>

\* test(...) is called: test_loss = 0.; correct = 0.; total = 0.
TestEnter ==
  /\ pc = "loaded"
  /\ test_loss' = Zero
  /\ correct' = 0
  /\ total' = 0
  /\ batch_idx' = 0
  /\ order' \in Perms(Len(TestData))
  /\ batch_log' = << >>
  /\ pc' = "test"
  /\ console' = << >>
  /\ UNCHANGED << events, error, arch, variant, n_epochs, epoch, params, buffers, grad,
                  requires_grad, require_grad, train_loss, valid_loss,
                  valid_loss_min, files, steps, epoch_hist >>

\* variant of TestBatch: the test loop also runs backward and step
TestBatch_WithStep ==
  /\ pc = "test"
  /\ \E loss \in LossVals, g \in GradVals,
        mask \in [1..BatchSize(Len(TestData), batch_idx) -> {0, 1}] :
       LET batch == Batch(TestData, order, batch_idx)
           size == Len(batch)
           output == [i \in 1..size |->
                        Forward(params, ModelInput(variant, batch, i), mask[i])]
           pred == [i \in 1..size |-> Argmax(output[i])]
           gr == Backward(ZeroGrad(grad, variant), requires_grad, g)
       IN  /\ test_loss' = Accumulate(test_loss, loss, size)
           /\ correct' = correct + CountCorrect(pred, batch)
           /\ total' = total + size
           /\ grad' = gr
           /\ params' = SgdStep(params, gr, variant)
           /\ batch_log' = Append(batch_log,
                 [phase |-> "test", loss |-> loss, size |-> size,
                  batch |-> batch, output |-> output, mask |-> mask])
  /\ buffers' = ForwardBuffers(buffers, variant)
  /\ IF LastBatch("test", batch_idx)
       THEN /\ pc' = "test_end"
            /\ batch_idx' = 0
            /\ order' = << >>
       ELSE /\ pc' = "test"
            /\ batch_idx' = batch_idx + 1
            /\ order' = order
  /\ UNCHANGED << events, console, error, arch, variant, n_epochs, epoch, requires_grad, require_grad,
                  train_loss, valid_loss, valid_loss_min, files, steps,
                  epoch_hist >>

\* one iteration of the loop over loaders['test']
TestBatch ==
  /\ pc = "test"
  /\ \E loss \in LossVals,
        mask \in [1..BatchSize(Len(TestData), batch_idx) -> {0, 1}] :
       LET batch == Batch(TestData, order, batch_idx)
           size == Len(batch)
           output == [i \in 1..size |->
                        Forward(params, ModelInput(variant, batch, i), mask[i])]
           pred == [i \in 1..size |-> Argmax(output[i])]
       IN  /\ test_loss' = Accumulate(test_loss, loss, size)
           /\ correct' = correct + CountCorrect(pred, batch)
           /\ total' = total + size
           /\ batch_log' = Append(batch_log,
                 [phase |-> "test", loss |-> loss, size |-> size,
                  batch |-> batch, output |-> output, mask |-> mask])
  /\ buffers' = ForwardBuffers(buffers, variant)
  /\ IF LastBatch("test", batch_idx)
       THEN /\ pc' = "test_end"
            /\ batch_idx' = 0
            /\ order' = << >>
       ELSE /\ pc' = "test"
            /\ batch_idx' = batch_idx + 1
            /\ order' = order
  /\ UNCHANGED << events, console, error, arch, variant, n_epochs, epoch, params, grad, requires_grad,
                  require_grad, train_loss, valid_loss, valid_loss_min, files,
                  steps, epoch_hist >>

\* test_loss = test_loss / len(loaders['test'].dataset), the two prints
TestEnd ==
  /\ pc = "test_end"
  /\ test_loss' = MeanLoss(test_loss, "test")
  /\ pc' = "done"
  /\ console' = console \o TestLines(MeanLoss(test_loss, "test"),
                                      correct, total)
  /\ UNCHANGED << events, error, arch, variant, n_epochs, epoch, batch_idx, order, params, buffers,
                  grad, requires_grad, require_grad, train_loss, valid_loss,
                  valid_loss_min, files, correct, total, steps, batch_log,
                  epoch_hist >>

\* the model cell of the scratch notebook, run for two values of num_classes
BuildScratch ==
  /\ variant = "scratch"
  /\ ~arch.built
  /\ arch' = [arch EXCEPT !.built = TRUE,
                          !.m1 = BuildModel(variant, arch.nc1),
                          !.m2 = BuildModel(variant, arch.nc2)]
  /\ UNCHANGED << events, console, error, variant, n_epochs, pc, epoch, batch_idx, order, params,
                  buffers, grad, requires_grad, require_grad, train_loss,
                  valid_loss, valid_loss_min, files, test_loss, correct,
                  total, steps, batch_log, epoch_hist >>

\* the model cell of the transfer notebook, run for two values of num_classes
BuildTransfer ==
  /\ variant = "transfer"
  /\ ~arch.built
  /\ arch' = [arch EXCEPT !.built = TRUE,
                          !.m1 = BuildModel(variant, arch.nc1),
                          !.m2 = BuildModel(variant, arch.nc2)]
  /\ UNCHANGED << events, console, error, variant, n_epochs, pc, epoch, batch_idx, order, params,
                  buffers, grad, requires_grad, require_grad, train_loss,
                  valid_loss, valid_loss_min, files, test_loss, correct,
                  total, steps, batch_log, epoch_hist >>

\* a file torch.save opened for writing and did not finish
Partial == [params |-> [p \in {} |-> 0], buffers |-> 0]

\* variant of TrainBatchFails: the exception is caught and the loop goes on
TrainBatchFails_Swallowed ==
  /\ pc = "train"
  /\ error' = "batch"
  /\ pc' = IF LastBatch("train", batch_idx) THEN "valid" ELSE "train"
  /\ batch_idx' = IF LastBatch("train", batch_idx) THEN 0 ELSE batch_idx + 1
  /\ order' = IF LastBatch("train", batch_idx)
                THEN [i \in 1..Len(ValidData) |-> i] ELSE order
  /\ UNCHANGED << events, console, arch, variant, n_epochs, epoch, params, buffers, grad,
                  requires_grad, require_grad, train_loss, valid_loss,
                  valid_loss_min, files, test_loss, correct, total, steps,
                  batch_log, epoch_hist >>

\* an exception while a training batch is fetched or processed, before
\* backward: nothing is caught, train() and the cell end
TrainBatchFails ==
  /\ pc = "train"
  /\ error' = "batch"
  /\ pc' = "crashed"
  /\ grad' \in {grad, ZeroGrad(grad, variant)}
  /\ UNCHANGED << events, console, arch, variant, n_epochs, epoch, batch_idx, order, params,
                  buffers, requires_grad, require_grad, train_loss,
                  valid_loss, valid_loss_min, files, test_loss, correct,
                  total, steps, batch_log, epoch_hist >>

\* an exception while a validation batch is fetched or processed
ValidBatchFails ==
  /\ pc = "valid"
  /\ error' = "batch"
  /\ pc' = "crashed"
  /\ UNCHANGED << events, console, arch, variant, n_epochs, epoch, batch_idx, order, params,
                  buffers, grad, requires_grad, require_grad, train_loss,
                  valid_loss, valid_loss_min, files, test_loss, correct,
                  total, steps, batch_log, epoch_hist >>

\* an exception raised by torch.save: the means are assigned, the file is
\* untouched (the open failed) or left incomplete (the write failed)
SaveFails ==
  /\ pc = "epoch_end"
  /\ LET tl == MeanLoss(train_loss, "train")
         vl == MeanLoss(valid_loss, "valid")
     IN  /\ SaveNeeded(vl, valid_loss_min)
         /\ train_loss' = tl
         /\ valid_loss' = vl
  /\ files' \in {files, TorchSave(files, SavePath(variant), Partial)}
  /\ error' = "save"
  /\ pc' = "crashed"
  /\ console' = console \o EpochLines(epoch, MeanLoss(train_loss, "train"),
                                       MeanLoss(valid_loss, "valid"),
                                       valid_loss_min)
  /\ UNCHANGED << events, arch, variant, n_epochs, epoch, batch_idx, order, params,
                  buffers, grad, requires_grad, require_grad, valid_loss_min,
                  test_loss, correct, total, steps, batch_log, epoch_hist >>

\* an exception while a test batch is fetched or processed
TestBatchFails ==
  /\ pc = "test"
  /\ error' = "batch"
  /\ pc' = "crashed"
  /\ UNCHANGED << events, console, arch, variant, n_epochs, epoch, batch_idx, order, params,
                  buffers, grad, requires_grad, require_grad, train_loss,
                  valid_loss, valid_loss_min, files, test_loss, correct,
                  total, steps, batch_log, epoch_hist >>

Next ==
  \/ FreezeFeatures
  \/ TrainEnter
  \/ EpochStart
  \/ TrainBatch
  \/ ValidBatch
  \/ EpochEnd
  \/ TrainReturn
  \/ LoadStateDict
  \/ TestEnter
  \/ TestBatch
  \/ TestEnd

Spec == Init /\ [][Next]_vars

\* the model cell alone, for every pair of values of num_classes
InitArch ==
  /\ events = << >>
  /\ console = << >>
  /\ error = "none"
  /\ \E nc1, nc2 \in 1..MaxClasses : arch = NotBuilt(nc1, nc2)
  /\ variant \in Variants
  /\ n_epochs = 0
  /\ pc = "new"
  /\ epoch = 0
  /\ batch_idx = 0
  /\ order = << >>
  /\ params = InitParams
  /\ buffers = 0
  /\ grad = [p \in ParamNames |-> 0]
  /\ requires_grad = [p \in ParamNames |-> TRUE]
  /\ require_grad = [p \in ParamNames |-> "unset"]
  /\ train_loss = Zero
  /\ valid_loss = Zero
  /\ valid_loss_min = Inf
  /\ files = NoFiles
  /\ test_loss = Zero
  /\ correct = 0
  /\ total = 0
  /\ steps = 0
  /\ batch_log = << >>
  /\ epoch_hist = << >>

NextArch ==
  \/ BuildScratch
  \/ BuildTransfer

SpecArch == InitArch /\ [][NextArch]_vars

\* the run with the failures of the framework calls
NextFail ==
  \/ FreezeFeatures
  \/ TrainEnter
  \/ EpochStart
  \/ TrainBatch
  \/ ValidBatch
  \/ EpochEnd
  \/ TrainReturn
  \/ LoadStateDict
  \/ TestEnter
  \/ TestBatch
  \/ TestEnd
  \/ TrainBatchFails
  \/ ValidBatchFails
  \/ SaveFails
  \/ TestBatchFails

SpecFail == Init /\ [][NextFail]_vars

\* train() alone, for up to MaxEpochs + 1 epochs, run by a thread that
\* never stops on its own
InitTrain ==
  /\ events = << >>
  /\ console = << >>
  /\ error = "none"
  /\ arch = NotBuilt(133, 133)
  /\ variant \in Variants
  /\ n_epochs \in 0..(MaxEpochs + 1)
  /\ pc = "built"
  /\ epoch = 0
  /\ batch_idx = 0
  /\ order = << >>
  /\ params = InitParams
  /\ buffers = 0
  /\ grad = [p \in ParamNames |-> 0]
  /\ requires_grad = [p \in ParamNames |-> TRUE]
  /\ require_grad = [p \in ParamNames |-> "unset"]
  /\ train_loss = Zero
  /\ valid_loss = Zero
  /\ valid_loss_min = Inf
  /\ files = NoFiles
  /\ test_loss = Zero
  /\ correct = 0
  /\ total = 0
  /\ steps = 0
  /\ batch_log = << >>
  /\ epoch_hist = << >>

NextTrain ==
  \/ FreezeFeatures
  \/ TrainEnter
  \/ EpochStart
  \/ TrainBatch
  \/ ValidBatch
  \/ EpochEnd
  \/ TrainReturn

SpecTrain == InitTrain /\ [][NextTrain]_vars /\ WF_vars(NextTrain)

TypeOK ==
  /\ variant \in Variants
  /\ n_epochs \in 0..(MaxEpochs + 1)
  /\ params \in [ParamNames -> Int]
  /\ grad \in [ParamNames -> Int]
  /\ requires_grad \in [ParamNames -> BOOLEAN]
  /\ correct \in Nat
  /\ total \in Nat

\* ------------------------------------------------------ property helpers
Last(seq) == seq[Len(seq)]

InTrain == pc \in {"epoch_head", "train", "valid", "epoch_end", "returned"}

\* positions from which the next step is a step of train()
TrainRunning == pc \in {"epoch_head", "train", "valid", "epoch_end"}

InTest == pc \in {"test", "test_end"}

Saved == \E i \in DOMAIN epoch_hist : epoch_hist[i].saved

\* epochs whose mean validation loss is the lowest of the completed epochs
BestEpochs ==
  {i \in DOMAIN epoch_hist :
     \A j \in DOMAIN epoch_hist :
       LeqR(epoch_hist[i].valid_loss, epoch_hist[j].valid_loss)}

RECURSIVE WeightedLoss(_, _)
WeightedLoss(log, phase) ==
  IF log = << >> THEN 0
  ELSE LET e == Last(log)
           rest == WeightedLoss(SubSeq(log, 1, Len(log) - 1), phase)
       IN  IF e.phase = phase THEN rest + e.loss * e.size ELSE rest

\* (batch, position) pairs of the samples the test pass has processed
TestSeen == {bi \in (DOMAIN batch_log) \X (1..batch_size) :
               bi[2] <= batch_log[bi[1]].size}

NoDropout == \A bi \in TestSeen : batch_log[bi[1]].mask[bi[2]] = 1

C2_TieDoesNotOverwrite ==
  [][ pc = "epoch_end" /\ Last(epoch_hist').saved
        => LtR(valid_loss', valid_loss_min) ]_vars

\* C3 (as claimed): at every point of train() exactly one checkpoint file
\* exists.
C3_ExactlyOneFile == InTrain => Cardinality(DOMAIN files) = 1

\* C3 (amended): at every point of train() at most one checkpoint file
\* exists, the one at save_path: none before the run's first save, exactly
\* one from the first save on.
C3_AtMostOneFile ==
  InTrain =>
    /\ DOMAIN files \subseteq {SavePath(variant)}
    /\ Saved <=> Cardinality(DOMAIN files) = 1
    /\ ~Saved <=> DOMAIN files = {}

C3_Witness ==
  /\ pc = "returned"
  /\ Len(epoch_hist) = 2
  /\ epoch_hist[1].saved
  /\ epoch_hist[2].saved
  /\ epoch_hist[1].state # epoch_hist[2].state
  /\ Cardinality(DOMAIN files) = 1

\* C4: whenever a checkpoint exists, its content is the model state at the
\* end of a completed epoch whose mean validation loss is the lowest of all
\* epochs completed so far.
C4_CheckpointIsBest ==
  \A f \in DOMAIN files :
    \E i \in BestEpochs : files[f] = epoch_hist[i].state

C4_Witness ==
  /\ pc = "returned"
  /\ Len(epoch_hist) = 2
  /\ LtR(epoch_hist[1].valid_loss, epoch_hist[2].valid_loss)
  /\ epoch_hist[1].state.params # epoch_hist[2].state.params
  /\ files[SavePath(variant)] = epoch_hist[1].state

\* C5: when test() starts, the model holds the content of the checkpoint
\* file, which is the state of the epoch with the lowest validation loss,
\* also when the last epoch was not the best one.
C5_TestStartsFromCheckpoint ==
  (pc = "loaded" \/ (pc = "test" /\ batch_log = << >>)) =>
    /\ SavePath(variant) \in DOMAIN files
    /\ StateDict(params, buffers) = files[SavePath(variant)]
    /\ \E i \in BestEpochs : params = epoch_hist[i].state.params

C5_Witness ==
  /\ pc = "test"
  /\ batch_log = << >>
  /\ Len(epoch_hist) = 2
  /\ ~epoch_hist[2].saved
  /\ epoch_hist[2].state.params # params
  /\ params = epoch_hist[1].state.params

\* C6: the mean training loss of an epoch is the sum over its training
\* batches of (batch loss x batch size) divided by the training dataset
\* size; the mean validation loss likewise over the validation batches.
C6_MeanLossIsWeightedSum ==
  (pc = "epoch_head" /\ epoch_hist # << >>) =>
    /\ EqR(train_loss, [num |-> WeightedLoss(batch_log, "train"),
                        den |-> Len(TrainData)])
    /\ EqR(valid_loss, [num |-> WeightedLoss(batch_log, "valid"),
                        den |-> Len(ValidData)])
    /\ train_loss.den > 0
    /\ valid_loss.den > 0
    /\ Last(epoch_hist).valid_loss = valid_loss

C6_Witness ==
  /\ pc = "epoch_head"
  /\ epoch_hist # << >>
  /\ \E i, j \in DOMAIN batch_log :
       /\ batch_log[i].phase = "train"
       /\ batch_log[j].phase = "train"
       /\ batch_log[i].size # batch_log[j].size
       /\ batch_log[i].loss # batch_log[j].loss
  /\ train_loss.num > 0
  /\ valid_loss.num > 0

\* C7: test() counts as correct the processed samples whose argmax of the
\* output logits equals the label and as total the processed samples; for
\* a deterministic model (no unit dropped) the counts depend on the model
\* and the test data only.
C7_AccuracyCounts ==
  (pc \in {"test_end", "done"}) =>
    /\ correct = Cardinality({bi \in TestSeen :
           Argmax(batch_log[bi[1]].output[bi[2]])
             = batch_log[bi[1]].batch[bi[2]].y})
    /\ total = Cardinality(TestSeen)
    /\ NoDropout =>
         /\ correct = Cardinality({bi \in TestSeen :
                LET batch == batch_log[bi[1]].batch
                IN  Argmax(Forward(params,
                                   ModelInput(variant, batch, bi[2]), 1))
                      = batch[bi[2]].y})
         /\ total = Len(TestData)

C7_Witness ==
  /\ pc = "done"
  /\ NoDropout
  /\ correct = 2
  /\ total = 3
  /\ batch_log[1].batch[1] # TestData[1]

\* C8: a validation batch leaves the model parameters unchanged; inside
\* train() the parameters change only in the step of a training batch.
C8_ValidationKeepsParams ==
  [][ /\ pc = "valid" => params' = params
      /\ (TrainRunning /\ params' # params)
           => (pc = "train" /\ steps' = steps + 1)
    ]_vars

C8_Witness ==
  /\ pc = "valid"
  /\ batch_idx = 1
  /\ params # InitParams
  /\ valid_loss.num > 0

C10_FeaturesKeepPretrained ==
  variant = "transfer" =>
    \A p \in FeatureParams : params[p] = InitParams[p]

C10_Witness ==
  /\ variant = "transfer"
  /\ steps >= 2
  /\ grad["features"] # 0
  /\ params["classifier_last"] # InitParams["classifier_last"]
  /\ params["features"] = InitParams["features"]

C12_FeaturesFrozen ==
  (variant = "transfer" /\ pc # "built") =>
    \A p \in FeatureParams : ~requires_grad[p] /\ grad[p] = 0

\* C13: changing num_classes changes only the output width of the final
\* classifier layer, which is num_classes; every other layer has the same
\* type, position and dimensions for every value of num_classes.
C13_OnlyLastWidthChanges ==
  arch.built =>
    LET c1 == arch.m1.classifier
        c2 == arch.m2.classifier
    IN  /\ arch.m1.features = arch.m2.features
        /\ Len(c1) = Len(c2)
        /\ \A i \in 1..(Len(c1) - 1) : c1[i] = c2[i]
        /\ Last(c1).type = "Linear"
        /\ Last(c2).type = "Linear"
        /\ Last(c1).in = Last(c2).in
        /\ Last(c1).out = arch.nc1
        /\ Last(c2).out = arch.nc2

C13_Witness ==
  /\ arch.built
  /\ arch.nc1 # arch.nc2
  /\ Last(arch.m1.classifier) # Last(arch.m2.classifier)
  /\ Len(arch.m1.features) > 0

\* C14 (as claimed): a failing step ends the run, nothing runs after it,
\* and the checkpoint file keeps the content of the last completed save.
C14_FailureKeepsCheckpoint ==
  [][ /\ error = "none"
      /\ error' # "none" =>
           /\ pc' \in {"crashed", "failed"}
           /\ files' = files ]_vars

\* C14 (amended): a failing step ends the run: no further batch or epoch is
\* processed and nothing is retried; the checkpoint file keeps the content
\* of the last completed save unless torch.save itself failed, which may
\* leave the file at save_path incomplete.
C14_FailureTerminates ==
  [][ /\ error = "none"
      /\ error' # "none" =>
           /\ pc' \in {"crashed", "failed"}
           /\ steps' = steps
           /\ epoch' = epoch
           /\ batch_idx' = batch_idx
           /\ params' = params
           /\ epoch_hist' = epoch_hist
           /\ \/ files' = files
              \/ /\ error' = "save"
                 /\ files' = TorchSave(files, SavePath(variant), Partial)
    ]_vars

C14_Witness ==
  /\ error = "save"
  /\ pc = "crashed"
  /\ Len(epoch_hist) = 1
  /\ epoch_hist[1].saved
  /\ files[SavePath(variant)] = Partial

\* the loop bodies of epoch e in program order
EpochSchedule(e) ==
  [i \in 1..NumBatches(Len(TrainData)) |-> Event("train", e, i - 1)]
    \o [i \in 1..NumBatches(Len(ValidData)) |-> Event("valid", e, i - 1)]
    \o << Event("decide", e, 0) >>

RECURSIVE Schedule(_)
Schedule(n) == IF n = 0 THEN << >> ELSE Schedule(n - 1) \o EpochSchedule(n)

IsPrefix(s, t) == Len(s) <= Len(t) /\ SubSeq(t, 1, Len(s)) = s

\* C15: train() runs epochs 1..n_epochs in order; in each epoch every
\* training batch comes before any validation batch, and the save decision
\* comes after the last validation batch and before the next epoch's first
\* training batch.
C15_EpochOrder ==
  /\ IsPrefix(events, Schedule(n_epochs))
  /\ pc = "train" =>
       Schedule(n_epochs)[Len(events) + 1] = Event("train", epoch, batch_idx)
  /\ pc = "valid" =>
       Schedule(n_epochs)[Len(events) + 1] = Event("valid", epoch, batch_idx)
  /\ pc = "epoch_end" =>
       Schedule(n_epochs)[Len(events) + 1] = Event("decide", epoch, 0)

C15_Witness ==
  /\ pc = "train"
  /\ epoch = 2
  /\ batch_idx = 1
  /\ Len(events) = 6
  /\ events[5] = Event("decide", 1, 0)
  /\ events[6] = Event("train", 2, 0)

\* C16: every training batch applies exactly one optimizer step, and the
\* step uses the gradient of that batch alone (the gradients of the
\* optimizer's parameters are zeroed before backward); when train() has
\* returned, the steps number n_epochs times the training batches per epoch.
C16_OneStepPerBatch ==
  /\ [][ /\ pc = "train" =>
             /\ steps' = steps + 1
             /\ \E g \in GradVals :
                  \A p \in OptimizerParams(variant) :
                    /\ grad'[p] = g
                    /\ params'[p] = params[p] - g
         /\ steps' # steps => pc = "train" ]_vars
  /\ [](pc = "returned" =>
          steps = n_epochs * NumBatches(Len(TrainData)))

C16_Witness ==
  /\ pc = "returned"
  /\ n_epochs = 2
  /\ steps = 2 * NumBatches(Len(TrainData))
  /\ grad["classifier_last"] = 1
  /\ params["classifier_last"] = InitParams["classifier_last"] - steps

\* C17: for any n_epochs >= 0 train() terminates, after exactly n_epochs
\* epochs; there is no early stopping: an epoch that did not improve the
\* validation loss is followed by the next epoch.
C17_TrainTerminates ==
  /\ <>(pc = "returned")
  /\ [](pc = "returned" => Len(epoch_hist) = n_epochs /\ epoch = n_epochs + 1)
  /\ [][ (pc = "epoch_end" /\ epoch < n_epochs)
           => (pc' = "epoch_head" /\ epoch' <= n_epochs) ]_vars

C17_Witness ==
  /\ pc = "returned"
  /\ n_epochs = 3
  /\ Len(epoch_hist) = 3
  /\ ~epoch_hist[2].saved
  /\ epoch_hist[3].saved

\* the lowest mean validation loss of the first k completed epochs
MinValidLoss(k) ==
  IF k = 0 THEN Inf
  ELSE epoch_hist[CHOOSE i \in 1..k : \A j \in 1..k :
         LeqR(epoch_hist[i].valid_loss, epoch_hist[j].valid_loss)].valid_loss

\* positions of the console lines of one kind (and phase)
LinesOf(kind) == {i \in DOMAIN console : console[i].kind = kind}

ProgressOf(name) ==
  {i \in LinesOf("progress") : console[i].phase = name}

Slots(n) == {bi \in (0..(NumBatches(n) - 1)) \X (1..batch_size) :
               bi[2] <= BatchSize(n, bi[1])}

\* the dataset index the pass in progress yields at a slot
Yielded(bi) == order[bi[1] * batch_size + bi[2]]

RECURSIVE SizeSum(_, _)
SizeSum(log, phase) ==
  IF log = << >> THEN 0
  ELSE LET e == Last(log)
           rest == SizeSum(SubSeq(log, 1, Len(log) - 1), phase)
       IN  IF e.phase = phase THEN rest + e.size ELSE rest

\* the sizes of the batches of one phase, in the order they were processed
SizesOf(phase) ==
  LET sel == SelectSeq(batch_log, LAMBDA e : e.phase = phase)
  IN  [i \in DOMAIN sel |-> sel[i].size]

FullButLast(sizes) ==
  /\ \A i \in DOMAIN sizes : i < Len(sizes) => sizes[i] = batch_size
  /\ sizes # << >> => Last(sizes) \in 1..batch_size

\* C19: every pass over a loader yields each sample of its dataset exactly
\* once, in batches of batch_size samples except possibly a smaller last
\* one; at the end of test() total equals the size of the test dataset, the
\* number the summed test loss is divided by.
C19_PassCoversDataset ==
  /\ (pc \in {"train", "valid", "test"}) =>
       LET n == Len(Dataset(pc))
       IN  /\ \A k \in 1..n :
                Cardinality({bi \in Slots(n) : Yielded(bi) = k}) = 1
           /\ \A bi \in Slots(n) : Yielded(bi) \in 1..n
           /\ Len(SizesOf(pc)) = batch_idx
           /\ \A i \in 1..batch_idx :
                SizesOf(pc)[i] = BatchSize(n, i - 1)
  /\ (pc \in {"valid", "epoch_end"}) =>
       /\ SizeSum(batch_log, "train") = Len(TrainData)
       /\ FullButLast(SizesOf("train"))
  /\ (pc = "epoch_end") =>
       /\ SizeSum(batch_log, "valid") = Len(ValidData)
       /\ FullButLast(SizesOf("valid"))
  /\ (pc \in {"test_end", "done"}) =>
       /\ FullButLast(SizesOf("test"))
       /\ SizeSum(batch_log, "test") = Len(TestData)
       /\ total = Len(TestData)
  /\ (pc = "done") =>
       EqR(test_loss, [num |-> WeightedLoss(batch_log, "test"),
                       den |-> total])

C19_Witness ==
  /\ pc = "done"
  /\ SizesOf("test") = << batch_size, 1 >>
  /\ total = 3
  /\ test_loss.num > 0
  /\ batch_log[1].batch # SubSeq(TestData, 1, 2)

\* C20: valid_loss_min never increases; once an epoch has completed it is
\* the lowest mean validation loss of the epochs completed so far, and it is
\* infinity exactly while no epoch has completed.
C20_RunningMinimum ==
  /\ [][LeqR(valid_loss_min', valid_loss_min)]_vars
  /\ [](epoch_hist # << >> =>
          /\ valid_loss_min.den > 0
          /\ \A i \in DOMAIN epoch_hist :
               LeqR(valid_loss_min, epoch_hist[i].valid_loss)
          /\ \E i \in DOMAIN epoch_hist :
               EqR(valid_loss_min, epoch_hist[i].valid_loss))
  /\ [](epoch_hist = << >> => valid_loss_min = Inf)

C20_Witness ==
  /\ pc = "returned"
  /\ Len(epoch_hist) = 2
  /\ LtR(epoch_hist[1].valid_loss, epoch_hist[2].valid_loss)
  /\ EqR(valid_loss_min, epoch_hist[1].valid_loss)
  /\ ~EqR(valid_loss_min, valid_loss)

\* C21: the first epoch of train() always writes the checkpoint, so after
\* train() has returned with n_epochs >= 1 the file exists and the load
\* that follows succeeds; with n_epochs = 0 train() writes no file and
\* leaves the model as it was.
C21_FirstEpochSaves ==
  /\ [](epoch_hist # << >> => epoch_hist[1].saved)
  /\ []((pc = "returned" /\ n_epochs >= 1) =>
          /\ SavePath(variant) \in DOMAIN files
          /\ Len(epoch_hist) >= 1)
  /\ [][ (pc = "returned" /\ n_epochs >= 1) =>
           (pc' = "loaded" /\ error' = "none") ]_vars
  /\ [](pc \in {"loaded", "test", "test_end", "done"} => n_epochs >= 1)
  /\ []((pc = "returned" /\ n_epochs = 0) =>
          /\ files = NoFiles
          /\ epoch_hist = << >>
          /\ steps = 0
          /\ params = InitParams
          /\ buffers = 0)

C21_Witness ==
  /\ pc = "loaded"
  /\ n_epochs = 2
  /\ epoch_hist[1].saved
  /\ epoch_hist[1].valid_loss.num > 0
  /\ ~epoch_hist[2].saved
  /\ params = epoch_hist[1].state.params

\* the loss summed over the batches of one phase of the current epoch
SumOf(phase) == [num |-> WeightedLoss(batch_log, phase), den |-> 1]

\* C22: train_loss and valid_loss are zero when an epoch starts, so while
\* an epoch runs each holds the loss of that epoch's batches only, and the
\* mean validation loss compared with the running minimum is that of the
\* epoch's own validation batches.
C22_AccumulatorsPerEpoch ==
  /\ [][ (pc = "epoch_head" /\ pc' = "train") =>
           (train_loss' = Zero /\ valid_loss' = Zero) ]_vars
  /\ [](pc = "train" => (train_loss = SumOf("train") /\ valid_loss = Zero))
  /\ [](pc = "valid" =>
          (train_loss = SumOf("train") /\ valid_loss = SumOf("valid")))
  /\ [](pc = "epoch_end" =>
          (train_loss = SumOf("train") /\ valid_loss = SumOf("valid")))
  /\ [][ pc = "epoch_end" =>
           /\ Last(epoch_hist').valid_loss
                = DivR(SumOf("valid"), Len(ValidData))
           /\ Last(epoch_hist').saved
                <=> LeqR(DivR(SumOf("valid"), Len(ValidData)),
                         valid_loss_min) ]_vars

C22_Witness ==
  /\ pc = "epoch_end"
  /\ epoch = 2
  /\ epoch_hist[1].valid_loss.num = MaxLoss * Len(ValidData)
  /\ valid_loss = Zero
  /\ train_loss = Zero
  /\ Len(batch_log) = 4

\* the 'Test Accuracy' line of the console
AccuracyLines == {i \in DOMAIN console : console[i].kind = "accuracy"}

\* C23: in test() 0 <= correct <= total holds after every batch, and the
\* printed percentage is 100 * correct / total with the fraction cut off,
\* so it is in 0..100 and is 100 only when correct = total.
C23_AccuracyPercent ==
  /\ (pc \in {"test", "test_end", "done"}) =>
       /\ 0 <= correct
       /\ correct <= total
       /\ total = SizeSum(batch_log, "test")
  /\ (pc = "done") =>
       /\ Cardinality(AccuracyLines) = 1
       /\ \A i \in AccuracyLines :
            LET p == console[i].percent
            IN  /\ p * total <= 100 * correct
                /\ 100 * correct < (p + 1) * total
                /\ p \in 0..100
                /\ p = 100 => correct = total
                /\ console[i].correct = correct
                /\ console[i].total = total

C23_Witness ==
  /\ pc = "done"
  /\ correct = 2
  /\ total = 3
  /\ \E i \in AccuracyLines : console[i].percent = 66

\* batch b of a pass over the test data in order ord with batches of bs
BatchOf(ord, bs, b) ==
  LET n == Len(TestData)
      size == IF (b + 1) * bs <= n THEN bs ELSE n - b * bs
  IN  [i \in 1..size |-> TestData[ord[b * bs + i]]]

\* the correct count test() reports for parameters p in order ord with
\* batches of bs samples when no unit is dropped
CorrectOf(p, v, ord, bs) ==
  LET nb == (Len(TestData) + bs - 1) \div bs
  IN  Cardinality({bi \in (0..(nb - 1)) \X (1..bs) :
        LET batch == BatchOf(ord, bs, bi[1])
        IN  /\ bi[2] <= Len(batch)
            /\ Argmax(Forward(p, ModelInput(v, batch, bi[2]), 1))
                 = batch[bi[2]].y})

\* C24: for a deterministic model (no unit dropped) the correct and total
\* counts test() reports are those of every other shuffle order and every
\* other batch size.
C24_OrderIndependent ==
  (pc = "done" /\ NoDropout) =>
    /\ total = Len(TestData)
    /\ \A ord \in Perms(Len(TestData)), bs \in 1..Len(TestData) :
         CorrectOf(params, variant, ord, bs) = correct

\* the part of C24 that holds: total never depends on the order, and
\* without BatchNorm layers (the transfer notebook) neither does correct
C24_TransferOrderIndependent ==
  (pc = "done" /\ NoDropout) =>
    /\ total = Len(TestData)
    /\ ~HasBatchNorm(variant) =>
         \A ord \in Perms(Len(TestData)), bs \in 1..Len(TestData) :
           CorrectOf(params, variant, ord, bs) = correct

====
